---------------------------- MODULE Spec2Model ----------------------------
(***************************************************************************)
(* Position & equity simulation engine of the backtester                   *)
(* (src/backtester.py), its reference strategy (src/strategy.py) and the   *)
(* fetch loop of the data loader (src/data_loader.py).                     *)
(*                                                                         *)
(* Python floats are modelled as exact rationals <<n, d>> in lowest terms  *)
(* with d > 0: every +, -, *, / of the source is the exact operation, so   *)
(* the rounding of IEEE doubles is not part of the model.                  *)
(***************************************************************************)
EXTENDS Integers, Sequences, FiniteSets, TLC

(***************************************************************************)
(* Bounds of the model.                                                    *)
(***************************************************************************)
MaxPrice == 2       \* prices are 1..MaxPrice
MaxOps == 3         \* orders are issued while the trade log is shorter
MaxCandles == 3     \* longest candle feed given to the reference strategy
MaxRunCandles == 2  \* longest candle feed given to an arbitrary strategy
MaxMs == 4          \* the exchange has candles at the times 0..MaxMs
MaxBatch == 2       \* most candles the exchange returns for one request

(***************************************************************************)
(* Rational arithmetic standing for the float arithmetic of the source.    *)
(***************************************************************************)
RECURSIVE GCD(_, _)
GCD(a, b) == IF b = 0 THEN a ELSE GCD(b, a % b)

AbsI(n) == IF n < 0 THEN -n ELSE n

Rat(n, d) ==
    LET g == GCD(AbsI(n), d)
    IN  <<n \div g, d \div g>>

Zero == <<0, 1>>
One == <<1, 1>>
Half == <<1, 2>>
Num(i) == <<i, 1>>

Neg(x) == <<-x[1], x[2]>>
Abs(x) == <<AbsI(x[1]), x[2]>>

Add(x, y) ==
    LET g == GCD(x[2], y[2])
    IN  Rat(x[1] * (y[2] \div g) + y[1] * (x[2] \div g), (x[2] \div g) * y[2])

Sub(x, y) == Add(x, Neg(y))

Mul(x, y) ==
    LET g1 == GCD(AbsI(x[1]), y[2])
        g2 == GCD(AbsI(y[1]), x[2])
    IN  Rat((x[1] \div g1) * (y[1] \div g2), (x[2] \div g2) * (y[2] \div g1))

\* x / y for y > 0 (prices are positive)
Div(x, y) == Mul(x, <<y[2], y[1]>>)

Lt(x, y) ==
    LET g == GCD(x[2], y[2])
    IN  x[1] * (y[2] \div g) < y[1] * (x[2] \div g)

Le(x, y) == ~Lt(y, x)
IsPos(x) == x[1] > 0
IsNeg(x) == x[1] < 0
IsZero(x) == x[1] = 0

(***************************************************************************)
(* Inputs.                                                                 *)
(***************************************************************************)
Prices == {Num(p) : p \in 1..MaxPrice}
Fees == {Zero, <<1, 4>>}                      \* fee in [0, 1)
InitialBalances == {Num(10)}                  \* initial_balance > 0
Pcts == {Zero, Half, One, <<3, 2>>}           \* amount_usdt_percent, valid or not
EntryPcts == {Half, One}                      \* trade_entry_percent of main.py
Timestamps == {1}                             \* a direct caller's timestamp: opaque
Candles == [open : Prices, close : Prices]

MIN_ORDER_USDT == Num(5)
DefaultEntryPercent == <<1, 10>>

VARIABLES
    initial_balance,      \* Backtester.initial_balance
    current_balance,      \* Backtester.current_balance
    fee,                  \* Backtester.fee
    position,             \* Backtester.position
    entry_price,          \* Backtester.entry_price
    trade_log,            \* Backtester.trade_log
    equity_log,           \* Backtester.equity_log
    call,                 \* the last call of _execute_order: its arguments
    ret,                  \* what that call returned (FALSE and line 0: no call yet)
    ret_line,             \* the line of the return statement it left by
    aborted,              \* "CRITICAL ERROR ... Simulation aborted." was printed
    returned_true,        \* number of calls of _execute_order that returned True
    pc,                   \* run_backtest: "idle", "loop", "callback", "sample", "done"
    candle,               \* the row the loop is at: timestamp, open, close
    trade_entry_percent,  \* Strategy.trade_entry_percent
    kind0,                \* position kind when the current callback began
    log0,                 \* len(trade_log) when the current callback began
    invoked,              \* number of on_candle invocations so far
    dl_pc,                \* load_data: "idle", "request", "backoff", "loop_exit",
                          \* "returned_empty"
    end_date_ms,          \* load_data: end_date_ms
    current_since,        \* load_data: current_since
    ohlcv_batch,          \* load_data: the last batch fetched (its timestamps)
    all_ohlcv_data        \* load_data: all_ohlcv_data (its timestamps)

NoCall == [op |-> "none", price |-> Zero, pct |-> Zero]

engine == <<initial_balance, current_balance, fee, position, entry_price,
            trade_log>>
account == <<current_balance, position, entry_price, trade_log>>
lastcall == <<call, ret, ret_line>>
history == <<aborted, returned_true>>
loop == <<pc, candle, trade_entry_percent, kind0, log0, invoked,
          equity_log>>
loader == <<dl_pc, end_date_ms, current_since, ohlcv_batch, all_ohlcv_data>>
vars == <<initial_balance, current_balance, fee, position, entry_price,
          trade_log, equity_log, call, ret, ret_line, aborted, returned_true,
          pc, candle,
          trade_entry_percent, kind0, log0, invoked,
          dl_pc, end_date_ms, current_since, ohlcv_batch, all_ohlcv_data>>

NoCandle == [timestamp |-> 0, open |-> Zero, close |-> Zero]

\* Backtester.__init__
InitEngine ==
    /\ initial_balance \in InitialBalances
    /\ current_balance = initial_balance
    /\ fee \in Fees
    /\ position = Zero
    /\ entry_price = Zero
    /\ trade_log = <<>>
    /\ equity_log = <<>>
    /\ call = NoCall
    /\ ret = FALSE
    /\ ret_line = 0
    /\ aborted = FALSE
    /\ returned_true = 0
    /\ pc = "idle"
    /\ candle = NoCandle
    /\ kind0 = "NONE"
    /\ log0 = 0
    /\ invoked = 0

\* main.py, lines 77-85: the engine is built once load_data is over
LoaderIdle ==
    /\ dl_pc = "idle"
    /\ end_date_ms = 0
    /\ current_since = 0
    /\ ohlcv_batch = <<>>
    /\ all_ohlcv_data = <<>>

\* Strategy.__init__ with its default trade_entry_percent
Init ==
    /\ InitEngine
    /\ LoaderIdle
    /\ trade_entry_percent = DefaultEntryPercent

\* Strategy.__init__ as main.py calls it
InitRef ==
    /\ InitEngine
    /\ LoaderIdle
    /\ trade_entry_percent \in EntryPcts

\* Backtester.get_position_type
PositionType(pos) ==
    IF IsPos(pos) THEN "LONG" ELSE IF IsNeg(pos) THEN "SHORT" ELSE "NONE"

get_position_type == PositionType(position)

(***************************************************************************)
(* _execute_order.  Each branch first decides the return statement a       *)
(* rejected order leaves by (0: the order is executed).                    *)
(***************************************************************************)
ValidPct(pct) == Lt(Zero, pct) /\ Le(pct, One)

BuyLongReject_NoLongGuard(pct) ==
    IF IsNeg(position) THEN 62
    ELSE IF Le(current_balance, Zero) THEN 65
    ELSE IF ~ValidPct(pct) THEN 68
    ELSE IF Lt(Mul(current_balance, pct), MIN_ORDER_USDT) THEN 73
    ELSE 0

BuyLongReject_StrictPct(pct) ==
    IF IsPos(position) THEN 59
    ELSE IF IsNeg(position) THEN 62
    ELSE IF Le(current_balance, Zero) THEN 65
    ELSE IF ~(Lt(Zero, pct) /\ Lt(pct, One)) THEN 68
    ELSE IF Lt(Mul(current_balance, pct), MIN_ORDER_USDT) THEN 73
    ELSE 0

BuyLongReject(pct) ==
    IF IsPos(position) THEN 59
    ELSE IF IsNeg(position) THEN 62
    ELSE IF Le(current_balance, Zero) THEN 65
    ELSE IF ~ValidPct(pct) THEN 68
    ELSE IF Lt(Mul(current_balance, pct), MIN_ORDER_USDT) THEN 73
    ELSE 0

CloseLongReject_MinOrder ==
    IF Le(position, Zero) THEN 93
    ELSE IF Lt(Mul(position, entry_price), MIN_ORDER_USDT) THEN 93
    ELSE 0

CloseLongReject ==
    IF Le(position, Zero) THEN 93 ELSE 0

SellShortReject_NoLongGuard(pct) ==
    IF IsNeg(position) THEN 117
    ELSE IF ~ValidPct(pct) THEN 127
    ELSE IF Lt(Mul(current_balance, pct), MIN_ORDER_USDT) THEN 134
    ELSE 0

SellShortReject(pct) ==
    IF IsNeg(position) THEN 117
    ELSE IF IsPos(position) THEN 120
    ELSE IF ~ValidPct(pct) THEN 127
    ELSE IF Lt(Mul(current_balance, pct), MIN_ORDER_USDT) THEN 134
    ELSE 0

CostToBuyBack(price) ==
    Mul(Mul(Abs(position), price), Add(One, fee))

CloseShortReject_NoFee(price) ==
    IF Le(Zero, position) THEN 155
    ELSE IF Lt(current_balance, Mul(Abs(position), price)) THEN 168
    ELSE 0

CloseShortReject_NoBalanceCheck(price) ==
    IF Le(Zero, position) THEN 155 ELSE 0

CloseShortReject(price) ==
    IF Le(Zero, position) THEN 155
    ELSE IF Lt(current_balance, CostToBuyBack(price)) THEN 168
    ELSE 0

\* lines 102-103 and 183-184: a close resets the position
ClosePosition_KeepEntry ==
    /\ position' = Zero
    /\ entry_price' = entry_price

ClosePosition ==
    /\ position' = Zero
    /\ entry_price' = Zero

\* a return False: nothing but the record of the call changes (line 166
\* prints the critical error before the return of line 168)
ReturnFalse(order_type, price, pct, line) ==
    /\ call' = [op |-> order_type, price |-> price, pct |-> pct]
    /\ ret' = FALSE
    /\ ret_line' = line
    /\ aborted' = (aborted \/ line = 168)
    /\ returned_true' = returned_true
    /\ UNCHANGED engine

ReturnTrue_Replace(order_type, price, pct, trade_info) ==
    /\ call' = [op |-> order_type, price |-> price, pct |-> pct]
    /\ trade_log' = <<trade_info>>
    /\ ret' = TRUE
    /\ ret_line' = 200
    /\ returned_true' = returned_true + 1
    /\ UNCHANGED <<initial_balance, fee, aborted>>

\* lines 199-200: the trade is logged and True returned
ReturnTrue(order_type, price, pct, trade_info) ==
    /\ call' = [op |-> order_type, price |-> price, pct |-> pct]
    /\ trade_log' = Append(trade_log, trade_info)
    /\ ret' = TRUE
    /\ ret_line' = 200
    /\ returned_true' = returned_true + 1
    /\ UNCHANGED <<initial_balance, fee, aborted>>

BuyLongFill_NoFee(price, timestamp, pct) ==
    LET usdt_to_spend == Mul(current_balance, pct)
        amount_coins == Div(usdt_to_spend, price)
        cost_usdt == usdt_to_spend
    IN  /\ current_balance' = Sub(current_balance, cost_usdt)
        /\ position' = amount_coins
        /\ entry_price' = price
        /\ ReturnTrue("BUY_LONG", price, pct,
              [timestamp |-> timestamp, type |-> "BUY_LONG", price |-> price,
               amount_coins |-> amount_coins, cost_usdt |-> cost_usdt,
               balance_after_trade |-> current_balance',
               current_position |-> position', pnl_usdt |-> Zero])

BuyLongFill_StaleBalance(price, timestamp, pct) ==
    LET usdt_to_spend == Mul(current_balance, pct)
        amount_coins == Mul(Div(usdt_to_spend, price), Sub(One, fee))
        cost_usdt == usdt_to_spend
    IN  /\ current_balance' = Sub(current_balance, cost_usdt)
        /\ position' = amount_coins
        /\ entry_price' = price
        /\ ReturnTrue("BUY_LONG", price, pct,
              [timestamp |-> timestamp, type |-> "BUY_LONG", price |-> price,
               amount_coins |-> amount_coins, cost_usdt |-> cost_usdt,
               balance_after_trade |-> current_balance,
               current_position |-> position', pnl_usdt |-> Zero])

BuyLongFill(price, timestamp, pct) ==
    LET usdt_to_spend == Mul(current_balance, pct)
        amount_coins == Mul(Div(usdt_to_spend, price), Sub(One, fee))
        cost_usdt == usdt_to_spend
    IN  /\ current_balance' = Sub(current_balance, cost_usdt)
        /\ position' = amount_coins
        /\ entry_price' = price
        /\ ReturnTrue("BUY_LONG", price, pct,
              [timestamp |-> timestamp, type |-> "BUY_LONG", price |-> price,
               amount_coins |-> amount_coins, cost_usdt |-> cost_usdt,
               balance_after_trade |-> current_balance',
               current_position |-> position', pnl_usdt |-> Zero])

CloseLongFill_GrossPnl(price, timestamp, pct) ==
    LET gross_revenue_usdt == Mul(position, price)
        net_revenue_usdt == Mul(gross_revenue_usdt, Sub(One, fee))
        initial_position_cost_usdt == Mul(position, entry_price)
        profit_loss == Sub(gross_revenue_usdt, initial_position_cost_usdt)
    IN  /\ current_balance' = Add(current_balance, net_revenue_usdt)
        /\ ClosePosition
        /\ ReturnTrue("CLOSE_LONG", price, pct,
              [timestamp |-> timestamp, type |-> "CLOSE_LONG", price |-> price,
               amount_coins |-> Zero, revenue_usdt |-> net_revenue_usdt,
               balance_after_trade |-> current_balance',
               current_position |-> position', pnl_usdt |-> profit_loss])

CloseLongFill(price, timestamp, pct) ==
    LET gross_revenue_usdt == Mul(position, price)
        net_revenue_usdt == Mul(gross_revenue_usdt, Sub(One, fee))
        initial_position_cost_usdt == Mul(position, entry_price)
        profit_loss == Sub(net_revenue_usdt, initial_position_cost_usdt)
    IN  /\ current_balance' = Add(current_balance, net_revenue_usdt)
        /\ ClosePosition
        /\ ReturnTrue("CLOSE_LONG", price, pct,
              [timestamp |-> timestamp, type |-> "CLOSE_LONG", price |-> price,
               amount_coins |-> Zero, revenue_usdt |-> net_revenue_usdt,
               balance_after_trade |-> current_balance',
               current_position |-> position', pnl_usdt |-> profit_loss])

SellShortFill_FullCredit(price, timestamp, pct) ==
    LET usdt_to_short_equivalent == Mul(current_balance, pct)
        amount_coins_short ==
            Mul(Div(usdt_to_short_equivalent, price), Sub(One, fee))
        received == usdt_to_short_equivalent
    IN  /\ current_balance' = Add(current_balance, received)
        /\ position' = Neg(amount_coins_short)
        /\ entry_price' = price
        /\ ReturnTrue("SELL_SHORT", price, pct,
              [timestamp |-> timestamp, type |-> "SELL_SHORT", price |-> price,
               amount_coins |-> Neg(amount_coins_short),
               revenue_usdt |-> received,
               balance_after_trade |-> current_balance',
               current_position |-> position', pnl_usdt |-> Zero])

SellShortFill(price, timestamp, pct) ==
    LET usdt_to_short_equivalent == Mul(current_balance, pct)
        amount_coins_short ==
            Mul(Div(usdt_to_short_equivalent, price), Sub(One, fee))
        received == Mul(usdt_to_short_equivalent, Sub(One, fee))
    IN  /\ current_balance' = Add(current_balance, received)
        /\ position' = Neg(amount_coins_short)
        /\ entry_price' = price
        /\ ReturnTrue("SELL_SHORT", price, pct,
              [timestamp |-> timestamp, type |-> "SELL_SHORT", price |-> price,
               amount_coins |-> Neg(amount_coins_short),
               revenue_usdt |-> received,
               balance_after_trade |-> current_balance',
               current_position |-> position', pnl_usdt |-> Zero])

CloseShortFill_GrossOpen(price, timestamp, pct) ==
    LET cost_to_buy_back == CostToBuyBack(price)
        revenue_from_short_open == Mul(Abs(position), entry_price)
        cost_for_short_close ==
            Mul(Mul(Abs(position), price), Add(One, fee))
        profit_loss == Sub(revenue_from_short_open, cost_for_short_close)
    IN  /\ current_balance' = Sub(current_balance, cost_to_buy_back)
        /\ ClosePosition
        /\ ReturnTrue("CLOSE_SHORT", price, pct,
              [timestamp |-> timestamp, type |-> "CLOSE_SHORT", price |-> price,
               amount_coins |-> Zero, cost_usdt |-> cost_to_buy_back,
               balance_after_trade |-> current_balance',
               current_position |-> position', pnl_usdt |-> profit_loss])

CloseShortFill(price, timestamp, pct) ==
    LET cost_to_buy_back == CostToBuyBack(price)
        revenue_from_short_open ==
            Mul(Mul(Abs(position), entry_price), Sub(One, fee))
        cost_for_short_close ==
            Mul(Mul(Abs(position), price), Add(One, fee))
        profit_loss == Sub(revenue_from_short_open, cost_for_short_close)
    IN  /\ current_balance' = Sub(current_balance, cost_to_buy_back)
        /\ ClosePosition
        /\ ReturnTrue("CLOSE_SHORT", price, pct,
              [timestamp |-> timestamp, type |-> "CLOSE_SHORT", price |-> price,
               amount_coins |-> Zero, cost_usdt |-> cost_to_buy_back,
               balance_after_trade |-> current_balance',
               current_position |-> position', pnl_usdt |-> profit_loss])

ExecuteOrder(order_type, price, timestamp, pct) ==
    CASE order_type = "BUY_LONG" ->
            IF BuyLongReject(pct) # 0
            THEN ReturnFalse(order_type, price, pct, BuyLongReject(pct))
            ELSE BuyLongFill(price, timestamp, pct)
      [] order_type = "CLOSE_LONG" ->
            IF CloseLongReject # 0
            THEN ReturnFalse(order_type, price, pct, CloseLongReject)
            ELSE CloseLongFill(price, timestamp, pct)
      [] order_type = "SELL_SHORT" ->
            IF SellShortReject(pct) # 0
            THEN ReturnFalse(order_type, price, pct, SellShortReject(pct))
            ELSE SellShortFill(price, timestamp, pct)
      [] order_type = "CLOSE_SHORT" ->
            IF CloseShortReject(price) # 0
            THEN ReturnFalse(order_type, price, pct, CloseShortReject(price))
            ELSE CloseShortFill(price, timestamp, pct)
      [] OTHER -> ReturnFalse(order_type, price, pct, 196)

\* the public methods; the closes pass the default amount_usdt_percent 1.0
open_long(timestamp, price, pct) ==
    ExecuteOrder("BUY_LONG", price, timestamp, pct)
close_long(timestamp, price) ==
    ExecuteOrder("CLOSE_LONG", price, timestamp, One)
open_short(timestamp, price, pct) ==
    ExecuteOrder("SELL_SHORT", price, timestamp, pct)
close_short(timestamp, price) ==
    ExecuteOrder("CLOSE_SHORT", price, timestamp, One)

(***************************************************************************)
(* Spec: a caller drives the engine through its four public operations.    *)
(***************************************************************************)
CanOrder == Len(trade_log) < MaxOps

ApiOpenLong ==
    /\ pc = "idle" /\ CanOrder
    /\ \E t \in Timestamps, p \in Prices, f \in Pcts : open_long(t, p, f)
    /\ UNCHANGED <<loop, loader>>

ApiCloseLong ==
    /\ pc = "idle" /\ CanOrder
    /\ \E t \in Timestamps, p \in Prices : close_long(t, p)
    /\ UNCHANGED <<loop, loader>>

ApiOpenShort ==
    /\ pc = "idle" /\ CanOrder
    /\ \E t \in Timestamps, p \in Prices, f \in Pcts : open_short(t, p, f)
    /\ UNCHANGED <<loop, loader>>

ApiCloseShort ==
    /\ pc = "idle" /\ CanOrder
    /\ \E t \in Timestamps, p \in Prices : close_short(t, p)
    /\ UNCHANGED <<loop, loader>>

Next == ApiOpenLong \/ ApiCloseLong \/ ApiOpenShort \/ ApiCloseShort

Spec == Init /\ [][Next]_vars

(***************************************************************************)
(* run_backtest: the loop over the candles.  The rows of self.data, and    *)
(* the end of the data, are drawn as the loop reaches them: the feed is    *)
(* any non-empty sequence of rows up to a longest length, with the         *)
(* timestamps 1, 2, ...                                                    *)
(***************************************************************************)
\* lines 259-263
RunBacktest ==
    /\ pc = "idle"
    /\ pc' = "loop"
    /\ UNCHANGED <<loader, engine, lastcall, history, candle, trade_entry_percent,
                   kind0, log0, invoked, equity_log>>

\* an iteration that steps over every other row
NextRow_Skip(rows) ==
    /\ pc = "loop"
    /\ candle.timestamp < rows
    /\ \E c \in Candles :
          candle' = [timestamp |-> candle.timestamp + 2,
                     open |-> c.open, close |-> c.close]
    /\ pc' = "callback"
    /\ kind0' = get_position_type
    /\ log0' = Len(trade_log)
    /\ invoked' = invoked + 1
    /\ UNCHANGED <<loader, engine, lastcall, history, trade_entry_percent,
                   equity_log>>

\* lines 266-276: the next row is read and on_candle is called with it
NextRow(rows) ==
    /\ pc = "loop"
    /\ candle.timestamp < rows
    /\ \E c \in Candles :
          candle' = [timestamp |-> candle.timestamp + 1,
                     open |-> c.open, close |-> c.close]
    /\ pc' = "callback"
    /\ kind0' = get_position_type
    /\ log0' = Len(trade_log)
    /\ invoked' = invoked + 1
    /\ UNCHANGED <<loader, engine, lastcall, history, trade_entry_percent,
                   equity_log>>

NextCandle == NextRow(MaxCandles)

CurrentEquity_BalanceOnly(close_price) == current_balance

\* lines 278-284
CurrentEquity(close_price) ==
    IF ~IsZero(position)
    THEN Add(current_balance, Mul(position, close_price))
    ELSE current_balance

EquitySample_OnlyOnTrade ==
    /\ pc = "sample"
    /\ equity_log' =
          IF Len(trade_log) > log0
          THEN Append(equity_log,
                 [timestamp |-> candle.timestamp,
                  equity |-> CurrentEquity(candle.close)])
          ELSE equity_log
    /\ pc' = "loop"
    /\ call' = NoCall /\ ret' = FALSE /\ ret_line' = 0
    /\ UNCHANGED <<loader, engine, history, candle, trade_entry_percent,
                   kind0, log0, invoked>>

EquitySample ==
    /\ pc = "sample"
    /\ equity_log' = Append(equity_log,
          [timestamp |-> candle.timestamp,
           equity |-> CurrentEquity(candle.close)])
    /\ pc' = "loop"
    /\ call' = NoCall /\ ret' = FALSE /\ ret_line' = 0
    /\ UNCHANGED <<loader, engine, history, candle, trade_entry_percent,
                   kind0, log0, invoked>>

\* a run that closes the open position at the last close when the rows end
Finish_AutoClose ==
    /\ pc = "loop"
    /\ candle.timestamp >= 1
    /\ pc' = "done"
    /\ current_balance' = Add(current_balance, Mul(position, candle.close))
    /\ ClosePosition
    /\ UNCHANGED <<loader, initial_balance, fee, trade_log, lastcall, history, candle,
                   trade_entry_percent, kind0, log0, invoked, equity_log>>

\* display_results, lines 295-302: the final equity it prints once the rows
\* are exhausted (the last row read is the last row of the data)
last_price == candle.close

final_equity ==
    IF ~IsZero(position)
    THEN Add(current_balance, Mul(position, last_price))
    ELSE current_balance

\* display_results, line 317: the sum of pnl_usdt over the close records
\* (ClosedPnlUpTo(n): over the first n records of the log)
RECURSIVE ClosedPnlUpTo(_)
ClosedPnlUpTo(n) ==
    IF n = 0 THEN Zero
    ELSE IF trade_log[n].type \in {"CLOSE_LONG", "CLOSE_SHORT"}
         THEN Add(ClosedPnlUpTo(n - 1), trade_log[n].pnl_usdt)
         ELSE ClosedPnlUpTo(n - 1)

closed_pnl == ClosedPnlUpTo(Len(trade_log))

\* lines 286-287: the rows are exhausted
Finish ==
    /\ pc = "loop"
    /\ candle.timestamp >= 1
    /\ pc' = "done"
    /\ UNCHANGED <<loader, engine, lastcall, history, candle,
                   trade_entry_percent, kind0, log0, invoked, equity_log>>

(***************************************************************************)
(* SpecRun: run_backtest with any strategy that trades at the candle's     *)
(* close, as the reference Strategy does: its on_candle issues any orders, *)
(* each dated at the candle's timestamp, then returns.                     *)
(***************************************************************************)
StrategyOrder ==
    /\ pc = "callback" /\ CanOrder
    /\ \/ \E f \in Pcts : open_long(candle.timestamp, candle.close, f)
       \/ close_long(candle.timestamp, candle.close)
       \/ \E f \in Pcts : open_short(candle.timestamp, candle.close, f)
       \/ close_short(candle.timestamp, candle.close)
    /\ UNCHANGED <<loop, loader>>

NextCandleRun == NextRow(MaxRunCandles)

OnCandleReturn ==
    /\ pc = "callback"
    /\ pc' = "sample"
    /\ UNCHANGED <<loader, engine, lastcall, history, candle,
                   trade_entry_percent, kind0, log0, invoked, equity_log>>

NextRun ==
    \/ RunBacktest
    \/ NextCandleRun
    \/ StrategyOrder
    \/ OnCandleReturn
    \/ EquitySample
    \/ Finish

SpecRun == Init /\ [][NextRun]_vars

\* the step EquitySample takes: it is enabled whenever pc = "sample", and no
\* other action leaves "sample"
SampleStep == pc = "sample" /\ pc' = "loop"

\* SpecRun for a program that runs: main.py calls run_backtest, the for
\* loop of lines 266-284 goes on to its next step (the next row, or the end
\* of the rows), the strategy's on_candle returns and the sample is taken.
\* These are the steps that move pc.
SpecRunFair ==
    /\ SpecRun
    /\ WF_pc(RunBacktest \/ NextCandleRun \/ Finish \/ OnCandleReturn)
    /\ WF_pc(SampleStep)

(***************************************************************************)
(* SpecRef: run_backtest with the reference Strategy of strategy.py.       *)
(***************************************************************************)
\* a strategy that also buys on a candle that closes where it opened
OnCandle_BuyOnDoji ==
    /\ pc = "callback"
    /\ LET position_type == get_position_type
           timestamp == candle.timestamp
           open_price == candle.open
           close_price == candle.close
       IN  IF position_type = "NONE" /\ Le(open_price, close_price)
           THEN open_long(timestamp, close_price, trade_entry_percent)
           ELSE IF position_type = "NONE" /\ Lt(close_price, open_price)
           THEN open_short(timestamp, close_price, trade_entry_percent)
           ELSE IF position_type = "LONG" /\ Lt(close_price, open_price)
           THEN close_long(timestamp, close_price)
           ELSE IF position_type = "SHORT" /\ Lt(open_price, close_price)
           THEN close_short(timestamp, close_price)
           ELSE UNCHANGED <<engine, lastcall, history>>
    /\ pc' = "sample"
    /\ UNCHANGED <<loader, candle, trade_entry_percent, kind0, log0,
                   invoked,
                   equity_log>>

\* Strategy.on_candle
OnCandle ==
    /\ pc = "callback"
    /\ LET position_type == get_position_type
           timestamp == candle.timestamp
           open_price == candle.open
           close_price == candle.close
       IN  IF position_type = "NONE" /\ Lt(open_price, close_price)
           THEN open_long(timestamp, close_price, trade_entry_percent)
           ELSE IF position_type = "NONE" /\ Lt(close_price, open_price)
           THEN open_short(timestamp, close_price, trade_entry_percent)
           ELSE IF position_type = "LONG" /\ Lt(close_price, open_price)
           THEN close_long(timestamp, close_price)
           ELSE IF position_type = "SHORT" /\ Lt(open_price, close_price)
           THEN close_short(timestamp, close_price)
           ELSE UNCHANGED <<engine, lastcall, history>>
    /\ pc' = "sample"
    /\ UNCHANGED <<loader, candle, trade_entry_percent, kind0, log0,
                   invoked,
                   equity_log>>

NextRef ==
    \/ RunBacktest
    \/ NextCandle
    \/ OnCandle
    \/ EquitySample
    \/ Finish

SpecRef == InitRef /\ [][NextRef]_vars

(***************************************************************************)
(* The claims.                                                             *)
(***************************************************************************)
(***************************************************************************)
(* SpecScenario: a caller with the default initial balance opens one       *)
(* position on the fresh account and closes it, at the prices and sizing   *)
(* fractions of the worked scenarios.                                      *)
(***************************************************************************)
ScenarioBalance == Num(10000)
ScenarioFees == {Zero, <<1, 1000>>}
ScenarioPrices == {Num(40), Num(50), Num(100), Num(110)}
ScenarioPcts == {Half, One}

InitScenario ==
    /\ initial_balance = ScenarioBalance
    /\ current_balance = initial_balance
    /\ fee \in ScenarioFees
    /\ position = Zero
    /\ entry_price = Zero
    /\ trade_log = <<>>
    /\ equity_log = <<>>
    /\ call = NoCall
    /\ ret = FALSE
    /\ ret_line = 0
    /\ aborted = FALSE
    /\ returned_true = 0
    /\ pc = "idle"
    /\ candle = NoCandle
    /\ kind0 = "NONE"
    /\ log0 = 0
    /\ invoked = 0
    /\ trade_entry_percent = DefaultEntryPercent
    /\ LoaderIdle

ScenarioOpenLong ==
    /\ pc = "idle" /\ trade_log = <<>>
    /\ \E t \in Timestamps, p \in ScenarioPrices, f \in ScenarioPcts :
          open_long(t, p, f)
    /\ UNCHANGED <<loop, loader>>

ScenarioCloseLong ==
    /\ pc = "idle"
    /\ \E t \in Timestamps, p \in ScenarioPrices : close_long(t, p)
    /\ UNCHANGED <<loop, loader>>

ScenarioOpenShort ==
    /\ pc = "idle" /\ trade_log = <<>>
    /\ \E t \in Timestamps, p \in ScenarioPrices, f \in ScenarioPcts :
          open_short(t, p, f)
    /\ UNCHANGED <<loop, loader>>

ScenarioCloseShort ==
    /\ pc = "idle"
    /\ \E t \in Timestamps, p \in ScenarioPrices : close_short(t, p)
    /\ UNCHANGED <<loop, loader>>

NextScenario ==
    \/ ScenarioOpenLong
    \/ ScenarioCloseLong
    \/ ScenarioOpenShort
    \/ ScenarioCloseShort

SpecScenario == InitScenario /\ [][NextScenario]_vars

(***************************************************************************)
(* SpecLoad: the fetch loop of DataLoader.load_data (src/data_loader.py,   *)
(* lines 72-102) against an exchange that answers a request with candles   *)
(* at or after the cursor, in ascending order, with no candle, with a      *)
(* rate-limit error or with another error.  A candle is its timestamp.     *)
(* The engine is not built yet: its fields keep their construction values. *)
(***************************************************************************)
StartDates == {0, 1}                \* start_date_ms
EndDates == 1..(MaxMs - 1)          \* end_date_ms

backtest == <<engine, lastcall, history, loop>>

\* what fetch_ohlcv(since, limit) may return when it returns candles
Batches(since) ==
    {b \in UNION {[1..n -> since..MaxMs] : n \in 1..MaxBatch} :
        \A i \in 1..(Len(b) - 1) : b[i] < b[i + 1]}

\* lines 52-72
InitLoader ==
    /\ InitEngine
    /\ trade_entry_percent = DefaultEntryPercent
    /\ dl_pc = "request"
    /\ end_date_ms \in EndDates
    /\ current_since \in StartDates
    /\ ohlcv_batch = <<>>
    /\ all_ohlcv_data = <<>>

\* lines 79-95: a non-empty batch
FetchBatch ==
    /\ dl_pc = "request"
    /\ \E b \in Batches(current_since) :
          LET filtered_batch == SelectSeq(b, LAMBDA t : t <= end_date_ms)
          IN  /\ ohlcv_batch' = b
              /\ all_ohlcv_data' = all_ohlcv_data \o filtered_batch
              /\ current_since' = b[Len(b)] + 1
    /\ dl_pc' = IF current_since' > end_date_ms THEN "loop_exit"
                ELSE "request"
    /\ UNCHANGED <<end_date_ms, backtest>>

\* lines 79-82: an empty batch
FetchEmpty ==
    /\ dl_pc = "request"
    /\ ohlcv_batch' = <<>>
    /\ dl_pc' = "loop_exit"
    /\ UNCHANGED <<end_date_ms, current_since, all_ohlcv_data, backtest>>

\* lines 97-99: fetch_ohlcv raises RateLimitExceeded
RateLimitExceeded ==
    /\ dl_pc = "request"
    /\ dl_pc' = "backoff"
    /\ UNCHANGED <<end_date_ms, current_since, ohlcv_batch, all_ohlcv_data,
                   backtest>>

\* line 99 and back to line 76: the sleep is over, the request is made again
RetryRequest ==
    /\ dl_pc = "backoff"
    /\ dl_pc' = "request"
    /\ UNCHANGED <<end_date_ms, current_since, ohlcv_batch, all_ohlcv_data,
                   backtest>>

\* lines 100-102: any other exception; the candles fetched are dropped
FetchError ==
    /\ dl_pc = "request"
    /\ dl_pc' = "returned_empty"
    /\ all_ohlcv_data' = <<>>
    /\ UNCHANGED <<end_date_ms, current_since, ohlcv_batch, backtest>>

NextLoad ==
    \/ FetchBatch
    \/ FetchEmpty
    \/ RateLimitExceeded
    \/ RetryRequest
    \/ FetchError

\* the program runs: a request is answered, one way or another, and a sleep
\* ends.  Nothing in the loop limits how often the answer is a rate-limit
\* error.
SpecLoad ==
    /\ InitLoader
    /\ [][NextLoad]_vars
    /\ WF_loader(FetchBatch \/ FetchEmpty \/ RateLimitExceeded \/ FetchError)
    /\ WF_loader(RetryRequest)

(***************************************************************************)
(* Claims.                                                                 *)
(***************************************************************************)
Opens == {"BUY_LONG", "SELL_SHORT"}
InCallback == pc \in {"callback", "sample"}

\* C1: position size and entry_price are both zero or both non-zero, and a
\* non-zero size has a strictly positive entry_price, after any sequence of
\* the four order operations.
C1_FlatInvariant ==
    /\ IsZero(position) <=> IsZero(entry_price)
    /\ ~IsZero(position) => IsPos(entry_price)

\* a long was opened, closed, and a short opened after it
C1_Witness ==
    /\ Len(trade_log) = 3
    /\ trade_log[2].type = "CLOSE_LONG"
    /\ IsNeg(position)
    /\ IsPos(entry_price)

\* C2: one order operation changes the position kind only along
\* NONE->LONG (open_long), LONG->NONE (close_long), NONE->SHORT (open_short),
\* SHORT->NONE (close_short), or leaves it unchanged.
C2_KindTransitions ==
    [][LET k == PositionType(position)
           k2 == PositionType(position')
       IN  \/ k2 = k
           \/ k = "NONE" /\ k2 = "LONG" /\ call'.op = "BUY_LONG"
           \/ k = "LONG" /\ k2 = "NONE" /\ call'.op = "CLOSE_LONG"
           \/ k = "NONE" /\ k2 = "SHORT" /\ call'.op = "SELL_SHORT"
           \/ k = "SHORT" /\ k2 = "NONE" /\ call'.op = "CLOSE_SHORT"]_vars

\* open_short was called while long, and the position is still long
C2_Witness ==
    /\ call.op = "SELL_SHORT"
    /\ ret = FALSE
    /\ ret_line = 120
    /\ get_position_type = "LONG"

\* C3: an order that is rejected (an open while long or short, a close with
\* no position of that direction, a fraction outside (0, 1], balance * fraction
\* below 5, a non-positive balance on an open) returns False and leaves the
\* balance, the position, the entry price and the trade log as they were.
C3_Rejected ==
    \/ call'.op \in Opens /\ ~IsZero(position)
    \/ call'.op = "CLOSE_LONG" /\ ~IsPos(position)
    \/ call'.op = "CLOSE_SHORT" /\ ~IsNeg(position)
    \/ call'.op \in Opens /\ ~(Lt(Zero, call'.pct) /\ Le(call'.pct, One))
    \/ call'.op \in Opens /\ Lt(Mul(current_balance, call'.pct), Num(5))
    \/ call'.op \in Opens /\ Le(current_balance, Zero)

C3_RejectedIsNoOp ==
    [][C3_Rejected => (ret' = FALSE /\ UNCHANGED account)]_vars

\* open_long was rejected because a long is already open
C3_Witness ==
    /\ call.op = "BUY_LONG"
    /\ ret = FALSE
    /\ ret_line = 59
    /\ IsPos(position)

\* C4: close_short while short with balance < |size| * price * (1 + fee)
\* fails and changes neither balance, position, entry price nor trade log.
C4_InsufficientBalance ==
    /\ call'.op = "CLOSE_SHORT"
    /\ IsNeg(position)
    /\ Lt(current_balance,
          Mul(Mul(Abs(position), call'.price), Add(One, fee)))

C4_FailedCloseShortIsNoOp ==
    [][C4_InsufficientBalance => (ret' = FALSE /\ UNCHANGED account)]_vars

\* close_short failed for insufficient balance with a fee: the balance would
\* have covered the buy-back without the fee
C4_Witness ==
    /\ call.op = "CLOSE_SHORT"
    /\ ret = FALSE
    /\ IsNeg(position)
    /\ IsPos(fee)
    /\ Le(Mul(Abs(position), call.price), current_balance)
    /\ Lt(current_balance, CostToBuyBack(call.price))

\* C5: the caller can tell close_short failing for insufficient balance from
\* an ordinary rejection.  The caller sees the returned value only, and an
\* ordinary rejection returns False (C3): the failure for insufficient
\* balance (the return of line 168) has to return something else.
C5_FatalIsDistinct ==
    ret_line = 168 => ret # FALSE

\* C6: once close_short has failed for insufficient balance, the run takes
\* no later candle: the strategy is not invoked again and no sample of a
\* later candle is appended.
C6_HaltsOnFatal ==
    [][aborted => (candle' = candle /\ invoked' = invoked)]_vars

\* C7: the balance is never negative.
C7_BalanceNonNegative ==
    Le(Zero, current_balance)

\* a short was bought back with the whole balance
C7_Witness ==
    /\ call.op = "CLOSE_SHORT"
    /\ ret = TRUE
    /\ IsZero(current_balance)

\* C8 as stated: a callback that began long does not end short, nor one that
\* began short long.
C8_NoReversalInCallback ==
    InCallback =>
        /\ ~(kind0 = "LONG" /\ get_position_type = "SHORT")
        /\ ~(kind0 = "SHORT" /\ get_position_type = "LONG")

\* C8 as amended: a reversal inside one callback takes two executed orders,
\* the close of the old position and then the open of the opposite one.
C8_ReversalTakesTwoOrders ==
    (InCallback /\ kind0 # "NONE" /\ get_position_type # "NONE"
       /\ get_position_type # kind0) =>
        /\ Len(trade_log) >= log0 + 2
        /\ trade_log[log0 + 1].type =
              (IF kind0 = "LONG" THEN "CLOSE_LONG" ELSE "CLOSE_SHORT")
        /\ trade_log[Len(trade_log)].type =
              (IF kind0 = "LONG" THEN "SELL_SHORT" ELSE "BUY_LONG")

\* a callback that began short has closed the short and opened a long
C8_Witness ==
    /\ InCallback
    /\ kind0 = "SHORT"
    /\ get_position_type = "LONG"
    /\ Len(trade_log) = log0 + 2

\* C9: the equity sample of a candle is the balance plus the position size
\* times the candle's close, on the state the callback left.
C9_EquityIsMarkToMarket ==
    (pc = "loop" /\ equity_log # <<>>) =>
        equity_log[Len(equity_log)] =
            [timestamp |-> candle.timestamp,
             equity |-> Add(current_balance, Mul(position, candle.close))]

\* a sample was taken with a short open
C9_Witness ==
    /\ pc = "loop"
    /\ equity_log # <<>>
    /\ IsNeg(position)
    /\ Lt(equity_log[Len(equity_log)].equity, current_balance)

\* C10: each candle is passed to on_candle once and then gets one equity
\* sample with its timestamp: after k candles the log holds k samples with
\* the timestamps of the first k rows, 1..k.
C10_OneSamplePerCandle ==
    /\ invoked = candle.timestamp
    /\ Len(equity_log) = (IF InCallback THEN invoked - 1 ELSE invoked)
    /\ \A i \in 1..Len(equity_log) : equity_log[i].timestamp = i

\* a run of two candles ended with no order executed
C10_Witness ==
    /\ pc = "done"
    /\ Len(trade_log) = 0
    /\ Len(equity_log) = 2

LastTrade == trade_log[Len(trade_log)]

\* C11: the trade log is append-only: a call that returns True appends one
\* record at the end, a call that returns False appends none, no call
\* changes or removes a record, and the length of the log is the number of
\* calls that returned True.
C11_AppendOnly ==
    /\ [](Len(trade_log) = returned_true)
    /\ [][\/ /\ ret' = TRUE
              /\ Len(trade_log') = Len(trade_log) + 1
              /\ SubSeq(trade_log', 1, Len(trade_log)) = trade_log
           \/ /\ ret' = FALSE
              /\ trade_log' = trade_log]_vars

\* a call failed after two had succeeded
C11_Witness ==
    /\ returned_true = 2
    /\ Len(trade_log) = 2
    /\ ret = FALSE

\* C12: open_long when flat with 0 < fraction <= 1, balance > 0 and
\* balance * fraction >= 5 succeeds with spend = balance * fraction,
\* balance := balance - spend, position := (spend / price) * (1 - fee) > 0,
\* entry_price := price.
C12_Accepted ==
    /\ call'.op = "BUY_LONG"
    /\ IsZero(position)
    /\ Lt(Zero, call'.pct) /\ Le(call'.pct, One)
    /\ IsPos(current_balance)
    /\ Le(Num(5), Mul(current_balance, call'.pct))

C12_OpenLongEffect ==
    [][C12_Accepted =>
         LET spend == Mul(current_balance, call'.pct)
         IN  /\ ret' = TRUE
             /\ current_balance' = Sub(current_balance, spend)
             /\ position' = Mul(Div(spend, call'.price), Sub(One, fee))
             /\ IsPos(position')
             /\ entry_price' = call'.price]_vars

\* half the balance bought a long at price 2 with a fee
C12_Witness ==
    /\ call = [op |-> "BUY_LONG", price |-> Num(2), pct |-> Half]
    /\ ret = TRUE
    /\ IsPos(fee)
    /\ IsPos(position)

\* C13: close_long while long succeeds with
\* revenue = size * price * (1 - fee), recorded pnl = revenue - size *
\* entry_price, balance := balance + revenue, position := 0, entry_price := 0.
C13_CloseLongEffect ==
    [][(call'.op = "CLOSE_LONG" /\ IsPos(position)) =>
         LET revenue == Mul(Mul(position, call'.price), Sub(One, fee))
         IN  /\ ret' = TRUE
             /\ trade_log'[Len(trade_log')].pnl_usdt =
                   Sub(revenue, Mul(position, entry_price))
             /\ current_balance' = Add(current_balance, revenue)
             /\ position' = Zero
             /\ entry_price' = Zero]_vars

\* a long bought at 1 was sold at 2 with a fee
C13_Witness ==
    /\ call.op = "CLOSE_LONG"
    /\ ret = TRUE
    /\ IsPos(fee)
    /\ LastTrade.price = Num(2)
    /\ trade_log[Len(trade_log) - 1].price = Num(1)

\* C14: open_short when flat with 0 < fraction <= 1 and
\* balance * fraction >= 5 succeeds with notional = balance * fraction,
\* balance := balance + notional * (1 - fee),
\* position := -((notional / price) * (1 - fee)) < 0, entry_price := price.
C14_Accepted ==
    /\ call'.op = "SELL_SHORT"
    /\ IsZero(position)
    /\ Lt(Zero, call'.pct) /\ Le(call'.pct, One)
    /\ Le(Num(5), Mul(current_balance, call'.pct))

C14_OpenShortEffect ==
    [][C14_Accepted =>
         LET notional == Mul(current_balance, call'.pct)
         IN  /\ ret' = TRUE
             /\ current_balance' =
                   Add(current_balance, Mul(notional, Sub(One, fee)))
             /\ position' =
                   Neg(Mul(Div(notional, call'.price), Sub(One, fee)))
             /\ IsNeg(position')
             /\ entry_price' = call'.price]_vars

\* half the balance was sold short at price 2 with a fee
C14_Witness ==
    /\ call = [op |-> "SELL_SHORT", price |-> Num(2), pct |-> Half]
    /\ ret = TRUE
    /\ IsPos(fee)
    /\ IsNeg(position)

\* C15: close_short while short with balance >= cost, where
\* cost = |size| * price * (1 + fee), succeeds with recorded
\* pnl = |size| * entry_price * (1 - fee) - cost, balance := balance - cost,
\* position := 0, entry_price := 0.
C15_Cost == Mul(Mul(Abs(position), call'.price), Add(One, fee))

C15_CloseShortEffect ==
    [][(call'.op = "CLOSE_SHORT" /\ IsNeg(position)
          /\ Le(C15_Cost, current_balance)) =>
         /\ ret' = TRUE
         /\ trade_log'[Len(trade_log')].pnl_usdt =
               Sub(Mul(Mul(Abs(position), entry_price), Sub(One, fee)),
                   C15_Cost)
         /\ current_balance' = Sub(current_balance, C15_Cost)
         /\ position' = Zero
         /\ entry_price' = Zero]_vars

\* a short sold at 2 was bought back at 1 with a fee
C15_Witness ==
    /\ call.op = "CLOSE_SHORT"
    /\ ret = TRUE
    /\ IsPos(fee)
    /\ LastTrade.price = Num(1)
    /\ trade_log[Len(trade_log) - 1].price = Num(2)

Closes == {"CLOSE_LONG", "CLOSE_SHORT"}

\* record i of the log closes, at the price it was opened at, the position
\* that record i - 1 opened
RoundTrip(i) ==
    /\ i > 1
    /\ trade_log[i].type \in Closes
    /\ trade_log[i - 1].type \in Opens
    /\ trade_log[i].price = trade_log[i - 1].price

\* C16: with fee > 0, a position closed at the price it was opened at
\* records a strictly negative pnl on the close, long or short, whatever
\* the accepted sizing fraction.
C16_RoundTripLoses ==
    \A i \in 1..Len(trade_log) :
        (RoundTrip(i) /\ IsPos(fee)) => IsNeg(trade_log[i].pnl_usdt)

\* a short sold at 2 with a fee was bought back at 2
C16_Witness ==
    /\ Len(trade_log) = 2
    /\ RoundTrip(2)
    /\ trade_log[2].type = "CLOSE_SHORT"
    /\ trade_log[2].price = Num(2)
    /\ IsPos(fee)

\* balance * fraction of the open recorded at i
Notional(i) ==
    IF trade_log[i].type = "BUY_LONG"
    THEN trade_log[i].cost_usdt
    ELSE Div(trade_log[i].revenue_usdt, Sub(One, fee))

\* C17: a position closed at the price it was opened at records
\* pnl = -2 * fee * notional up to a term of order fee^2 * notional (here:
\* at most 2 * fee^2 * notional, the term of the short round trip), long
\* or short.  Violated by the long round trip, whose recorded pnl is
\* -fee * notional * (1 - fee).
C17_RoundTripPnl ==
    \A i \in 1..Len(trade_log) :
        RoundTrip(i) =>
            Le(Abs(Add(trade_log[i].pnl_usdt,
                       Mul(Num(2), Mul(fee, Notional(i - 1))))),
               Mul(Num(2), Mul(Mul(fee, fee), Notional(i - 1))))

C18_Open == [op |-> "BUY_LONG", price |-> Num(100), pct |-> One]
C18_Close == [op |-> "CLOSE_LONG", price |-> Num(110), pct |-> One]

\* C18: with initial balance 10000 and fee 0, open_long with fraction 1.0
\* at price 100 gives position 100 and balance 0; a following close_long at
\* price 110 gives balance 11000, recorded pnl 1000 and position 0.
C18_LongScenario ==
    [][(initial_balance = Num(10000) /\ fee = Zero) =>
         /\ (trade_log = <<>> /\ call' = C18_Open) =>
               /\ ret' = TRUE
               /\ position' = Num(100)
               /\ current_balance' = Zero
         /\ (Len(trade_log) = 1 /\ trade_log[1].type = "BUY_LONG"
               /\ trade_log[1].price = Num(100)
               /\ trade_log[1].cost_usdt = Num(10000)
               /\ call' = C18_Close) =>
               /\ ret' = TRUE
               /\ current_balance' = Num(11000)
               /\ trade_log'[2].pnl_usdt = Num(1000)
               /\ position' = Zero]_vars

\* the long of the whole balance bought at 100 was sold at 110 without fee
C18_Witness ==
    /\ fee = Zero
    /\ Len(trade_log) = 2
    /\ trade_log[1].type = "BUY_LONG"
    /\ trade_log[1].price = Num(100)
    /\ trade_log[1].cost_usdt = Num(10000)
    /\ trade_log[2].type = "CLOSE_LONG"
    /\ trade_log[2].price = Num(110)

C19_Open == [op |-> "SELL_SHORT", price |-> Num(50), pct |-> Half]
C19_Close == [op |-> "CLOSE_SHORT", price |-> Num(40), pct |-> One]

\* the short scenario, with the buy-back cost it is to record
C19_Scenario(cost) ==
    (initial_balance = Num(10000) /\ fee = <<1, 1000>>) =>
      /\ (trade_log = <<>> /\ call' = C19_Open) =>
            /\ ret' = TRUE
            /\ Mul(current_balance, call'.pct) = Num(5000)
            /\ position' = Neg(<<999, 10>>)
            /\ current_balance' = Num(14995)
      /\ (Len(trade_log) = 1 /\ trade_log[1].type = "SELL_SHORT"
            /\ trade_log[1].price = Num(50)
            /\ trade_log[1].amount_coins = Neg(<<999, 10>>)
            /\ call' = C19_Close) =>
            /\ ret' = TRUE
            /\ trade_log'[2].cost_usdt = cost
            /\ IsPos(trade_log'[2].pnl_usdt)

\* C19 as stated: with initial balance 10000 and fee 0.001, open_short
\* with fraction 0.5 at price 50 uses notional 5000, gives a short of 99.9
\* coins and balance 14995; a following close_short at price 40 succeeds
\* with buy-back cost 3999.6 * 1.001 and a recorded pnl > 0.
C19_CostAsStated ==
    [][C19_Scenario(Mul(<<39996, 10>>, <<1001, 1000>>))]_vars

\* C19 amended: the same scenario, where the buy-back cost is
\* 99.9 * 40 * 1.001 = 3996 * 1.001 = 3999.996.
C19_ShortScenario ==
    [][C19_Scenario(Mul(Num(3996), <<1001, 1000>>))]_vars

\* the short of half the balance sold at 50 was bought back at 40 with
\* fee 0.001
C19_Witness ==
    /\ fee = <<1, 1000>>
    /\ Len(trade_log) = 2
    /\ trade_log[1].type = "SELL_SHORT"
    /\ trade_log[1].price = Num(50)
    /\ trade_log[1].amount_coins = Neg(<<999, 10>>)
    /\ trade_log[2].type = "CLOSE_SHORT"
    /\ trade_log[2].price = Num(40)

\* C20: closes are never rejected for size and liquidate the whole
\* position: close_long succeeds for every long position, however small,
\* at every price, and after a successful close_long or close_short the
\* position is exactly 0.
C20_ClosesLiquidate ==
    [][/\ (call'.op = "CLOSE_LONG" /\ IsPos(position)) => ret' = TRUE
       /\ (call'.op \in Closes /\ ret' = TRUE) => position' = Zero]_vars

\* a long bought for less than the minimum order was sold for less than
\* the minimum order
C20_Witness ==
    /\ Len(trade_log) >= 2
    /\ call.op = "CLOSE_LONG"
    /\ ret = TRUE
    /\ Lt(LastTrade.revenue_usdt, MIN_ORDER_USDT)
    /\ Lt(Mul(Abs(trade_log[Len(trade_log) - 1].amount_coins),
              trade_log[Len(trade_log) - 1].price), MIN_ORDER_USDT)
    /\ position = Zero

\* C21: a record, when it is appended, holds the balance and the position
\* the operation left; its pnl is 0 for an open; its coin amount is 0 for a
\* close and the signed new position for an open.
C21_RecordMatchesState ==
    [][Len(trade_log') > Len(trade_log) =>
         LET rec == trade_log'[Len(trade_log')]
         IN  /\ rec.balance_after_trade = current_balance'
             /\ rec.current_position = position'
             /\ rec.type \in Opens =>
                   (rec.pnl_usdt = Zero /\ rec.amount_coins = position')
             /\ rec.type \in Closes => rec.amount_coins = Zero]_vars

\* a short was just opened: its record holds a negative coin amount
C21_Witness ==
    /\ Len(trade_log) >= 1
    /\ call.op = "SELL_SHORT"
    /\ ret = TRUE
    /\ IsNeg(LastTrade.amount_coins)
    /\ LastTrade.balance_after_trade = current_balance

\* C22: the end of the feed does not close an open position: from the end
\* of the last callback on, the equity sample and the end of the run leave
\* balance, position, entry_price and trade log alone, and the final equity
\* reported is the last equity sample, balance + size * final close.
C22_NoAutoClose ==
    /\ [][(pc \in {"sample", "loop"} /\ pc' \in {"loop", "done"}) =>
            UNCHANGED account]_vars
    /\ [](pc = "done" =>
            /\ final_equity = equity_log[Len(equity_log)].equity
            /\ final_equity = Add(current_balance, Mul(position, candle.close)))

\* a run ended while short, its last sample below the balance
C22_Witness ==
    /\ pc = "done"
    /\ IsNeg(position)
    /\ IsPos(entry_price)
    /\ Lt(final_equity, current_balance)

\* C23: on a finite non-empty feed, with a strategy whose callback returns,
\* run_backtest terminates, having passed each candle to the strategy once,
\* in the order of the feed: every row taken is the one after the row
\* before it and is one more invocation, and at the end the rows 1..n have
\* made n invocations.
C23_Terminates ==
    /\ <>(pc = "done")
    /\ [][candle' # candle =>
            /\ candle'.timestamp = candle.timestamp + 1
            /\ invoked' = invoked + 1
            /\ pc' = "callback"]_vars
    /\ [][invoked' # invoked => candle' # candle]_vars
    /\ [](pc = "done" => (invoked = candle.timestamp /\ invoked >= 1))

\* a run of two candles ended after two orders were executed
C23_Witness ==
    /\ pc = "done"
    /\ candle.timestamp = 2
    /\ invoked = 2
    /\ Len(trade_log) = 2

\* the number of records of the log whose type is in the set types
Count(types) ==
    Cardinality({i \in 1..Len(trade_log) : trade_log[i].type \in types})

\* C24: the trade log alternates opens and closes of matching direction:
\* the first record is an open, each CLOSE_LONG comes right after a
\* BUY_LONG and each CLOSE_SHORT right after a SELL_SHORT, and opens minus
\* closes is 1 when the position is non-flat and 0 when it is flat.
C24_LogAlternates ==
    /\ Len(trade_log) > 0 => trade_log[1].type \in Opens
    /\ \A i \in 1..Len(trade_log) :
          /\ trade_log[i].type = "CLOSE_LONG" =>
                (i > 1 /\ trade_log[i - 1].type = "BUY_LONG")
          /\ trade_log[i].type = "CLOSE_SHORT" =>
                (i > 1 /\ trade_log[i - 1].type = "SELL_SHORT")
          /\ (trade_log[i].type \in Opens /\ i > 1) =>
                trade_log[i - 1].type \in Closes
    /\ Count(Opens) - Count(Closes) = (IF IsZero(position) THEN 0 ELSE 1)

\* a long was opened and closed, then a short was opened
C24_Witness ==
    /\ Len(trade_log) = 3
    /\ trade_log[1].type = "BUY_LONG"
    /\ trade_log[2].type = "CLOSE_LONG"
    /\ trade_log[3].type = "SELL_SHORT"
    /\ IsNeg(position)

\* C25: whenever the position is flat, balance - initial balance is the sum
\* of pnl_usdt over the CLOSE_LONG and CLOSE_SHORT records.  Violated with a
\* fee: the pnl of a long leaves out the entry fee, the pnl of a short counts
\* the entry fee twice.
C25_RealizedPnlIsCashChange ==
    IsZero(position) => Sub(current_balance, initial_balance) = closed_pnl

\* balance + size * p
EquityAt(balance, size, p) == Add(balance, Mul(size, p))

\* C26: no order creates value: for each operation executed at price p,
\* balance + size * p just after it is at most what it was just before, and
\* strictly less when the operation succeeds and fee > 0.  Violated by a
\* successful open_short, which leaves balance + size * p as it was.
C26_NoValueCreated ==
    [][LET p == call'.price
           before == EquityAt(current_balance, position, p)
           after == EquityAt(current_balance', position', p)
       IN  /\ Le(after, before)
           /\ (ret' = TRUE /\ IsPos(fee)) => Lt(after, before)]_vars

\* the order the reference strategy is to issue on the current candle, from
\* the position kind read when the callback started ("none": no order)
C27_Order ==
    LET up == Lt(candle.open, candle.close)
        down == Lt(candle.close, candle.open)
    IN  IF kind0 = "NONE" /\ up THEN "BUY_LONG"
        ELSE IF kind0 = "NONE" /\ down THEN "SELL_SHORT"
        ELSE IF kind0 = "LONG" /\ down THEN "CLOSE_LONG"
        ELSE IF kind0 = "SHORT" /\ up THEN "CLOSE_SHORT"
        ELSE "none"

\* C27: the reference Strategy issues at most one order per candle, chosen
\* from the position kind read at the start of the callback: flat and
\* close > open: open_long; flat and close < open: open_short; long and
\* close < open: close_long; short and close > open: close_short; no order
\* otherwise.  Hence the log gains at most one record per candle and its
\* timestamps are strictly increasing.
C27_OneOrderPerCandle ==
    /\ [][(pc = "callback" /\ pc' = "sample") =>
            /\ call'.op = C27_Order
            /\ C27_Order # "none" =>
                  (call'.price = candle.close /\ ret_line' # 0)
            /\ C27_Order = "none" => UNCHANGED account
            /\ Len(trade_log') <= Len(trade_log) + 1]_vars
    /\ [](Len(trade_log) <= candle.timestamp)
    /\ [](\A i, j \in 1..Len(trade_log) :
            i < j => trade_log[i].timestamp < trade_log[j].timestamp)

\* a short opened on the first candle was closed on a later, rising candle
C27_Witness ==
    /\ pc = "sample"
    /\ call.op = "CLOSE_SHORT"
    /\ ret = TRUE
    /\ Len(trade_log) = 2
    /\ trade_log[1].timestamp = 1
    /\ trade_log[2].timestamp = candle.timestamp
    /\ Lt(candle.open, candle.close)

LoadOver == dl_pc \in {"loop_exit", "returned_empty"}

\* C28: the fetch loop of load_data terminates: a non-empty batch moves the
\* cursor to its last timestamp + 1, the loop ends on an empty batch or once
\* the cursor is past the end date, an error other than a rate limit ends
\* it with an empty DataFrame, and a rate-limit error is followed by a retry
\* of the same request.  Violated: the retries need never stop.
C28_LoadTerminates ==
    /\ <>LoadOver
    /\ [][current_since' # current_since =>
            current_since' = ohlcv_batch'[Len(ohlcv_batch')] + 1]_vars
    /\ [][(dl_pc' = "loop_exit" /\ dl_pc # "loop_exit") =>
            (Len(ohlcv_batch') = 0 \/ current_since' > end_date_ms)]_vars
    /\ [][dl_pc' = "returned_empty" => Len(all_ohlcv_data') = 0]_vars
    /\ [][dl_pc = "backoff" =>
            (dl_pc' = "request" /\ current_since' = current_since)]_vars

=============================================================================
